---------------------------- MODULE Spec2Model ----------------------------
(* A model of agent_field_guide/server.py: the stdin/stdout JSON-RPC loop  *)
(* (main), the request dispatcher (dispatch) and the query functions over  *)
(* the PATTERNS store (search_patterns, get_by_category, get_mistakes,     *)
(* list_categories, stats).                                                *)
(*                                                                         *)
(* Strings are sequences of one-character strings.  JSON values keep the   *)
(* distinctions the code branches on: absent / object / not an object,     *)
(* string / other, integer-convertible / not.                              *)
EXTENDS Integers, Sequences, FiniteSets, TLC

VARIABLES PATTERNS, consumed, out, pc, call, ret

vars == <<PATTERNS, consumed, out, pc, call, ret>>

-----------------------------------------------------------------------------
(* Bounds of the model.                                                    *)

\* Longest stdin (in lines) the transport loop is run on.
MaxLines == 3
\* Longest query string drawn for the query functions.
MaxQueryLen == 3
\* Largest record store drawn for the query functions.
MaxStore == 2
\* Limits are drawn from -1 .. MaxLimit.
MaxLimit == 2
\* Most words in a query made of whole words.
MaxTerms == 3
\* Longest category string drawn for the query functions.
MaxCategoryLen == 2

-----------------------------------------------------------------------------
(* Strings.                                                                *)

Chars == {"a", "b", "A", " "}

\* str.lower, one character.
LowerChar(c) == IF c = "A" THEN "a" ELSE c

\* str.lower
Lower(s) == [i \in 1..Len(s) |-> LowerChar(s[i])]

\* Whitespace, as str.strip and the regular expression \s see it.
IsSpace(c) == c = " "

RECURSIVE LStrip(_)
LStrip(s) == IF s # <<>> /\ IsSpace(Head(s)) THEN LStrip(Tail(s)) ELSE s

RECURSIVE RStrip(_)
RStrip(s) ==
    IF s # <<>> /\ IsSpace(s[Len(s)]) THEN RStrip(SubSeq(s, 1, Len(s) - 1)) ELSE s

\* str.strip
Strip(s) == RStrip(LStrip(s))

\* t in text (substring test; the empty string is in every string).
Contains(text, t) ==
    \E i \in 0..(Len(text) - Len(t)) : SubSeq(text, i + 1, i + Len(t)) = t

\* " ".join(parts)
RECURSIVE Join(_)
Join(parts) ==
    IF parts = <<>> THEN <<>>
    ELSE IF Len(parts) = 1 THEN parts[1]
    ELSE parts[1] \o <<" ">> \o Join(Tail(parts))

\* re.split(r"\s+", s): the pieces between maximal runs of whitespace,
\* empty pieces at the ends included.
RECURSIVE ReSplit(_)
ReSplit(s) ==
    IF \A i \in 1..Len(s) : ~IsSpace(s[i]) THEN <<s>>
    ELSE LET i == CHOOSE k \in 1..Len(s) :
                      IsSpace(s[k]) /\ \A j \in 1..(k - 1) : ~IsSpace(s[j])
         IN  <<SubSeq(s, 1, i - 1)>> \o ReSplit(LStrip(SubSeq(s, i, Len(s))))

\* [f(x) for x in seq if x]  with f = lower: the non-empty pieces, lower-cased.
RECURSIVE NonEmptyLower(_)
NonEmptyLower(pieces) ==
    IF pieces = <<>> THEN <<>>
    ELSE IF Head(pieces) = <<>> THEN NonEmptyLower(Tail(pieces))
    ELSE <<Lower(Head(pieces))>> \o NonEmptyLower(Tail(pieces))

\* x in seq  (list membership)
InList(x, seq) == \E i \in 1..Len(seq) : seq[i] = x

\* seq[:n] for n >= 0
Take(seq, n) == SubSeq(seq, 1, IF n < Len(seq) THEN n ELSE Len(seq))

Max(a, b) == IF a >= b THEN a ELSE b
Min(a, b) == IF a <= b THEN a ELSE b

-----------------------------------------------------------------------------
(* Query functions.                                                        *)

\* Upper ends of the limit clamps.
SearchMaxLimit == 30
CategoryMaxLimit == 40
MistakesMaxLimit == 25
\* Defaults dispatch passes when "limit" is absent.
SearchDefaultLimit == 10
CategoryDefaultLimit == 15
MistakesDefaultLimit == 10
\* The exact-phrase boost.
PhraseBoost == 3

\* min(max(1, limit), hi)
\* A clamp that only raises a limit below 1 and never lowers a large one.
ClampFromBelow(limit, hi) == Max(1, limit)

Clamp(limit, hi) == Min(Max(1, limit), hi)

\* terms = [t.lower() for t in re.split(r"\s+", query.strip()) if t]
Terms(query) == NonEmptyLower(ReSplit(Strip(query)))

\* text = (content + " " + " ".join(categories) + " " + " ".join(tags)).lower()
Haystack(p) ==
    Lower(p.content \o <<" ">> \o Join(p.categories) \o <<" ">> \o Join(p.tags))

\* score = sum(1 for t in terms if t in text)
TermHits(terms, text) ==
    Cardinality({i \in 1..Len(terms) : Contains(text, terms[i])})

\* The score search_patterns gives record p (0: the record is left out).
Score(query, p) ==
    LET text == Haystack(p)
        score == TermHits(Terms(query), text)
    IN  IF score > 0
        THEN IF Contains(text, Lower(query)) THEN score + PhraseBoost ELSE score
        ELSE 0

\* scored: the (score, p) pairs of the records with score > 0, in store order.
RECURSIVE Scored(_, _)
Scored(query, store) ==
    IF store = <<>> THEN <<>>
    ELSE LET s == Score(query, Head(store))
         IN  (IF s > 0 THEN << <<s, Head(store)>> >> ELSE <<>>)
             \o Scored(query, Tail(store))

\* An insertion that puts x before the elements of equal score: a sort that
\* reverses ties.
RECURSIVE InsertByScoreUnstable(_, _)
InsertByScoreUnstable(sorted, x) ==
    IF sorted = <<>> THEN <<x>>
    ELSE IF Head(sorted)[1] > x[1]
         THEN <<Head(sorted)>> \o InsertByScoreUnstable(Tail(sorted), x)
         ELSE <<x>> \o sorted

\* list.sort(key=lambda x: -x[0]): stable, by non-increasing first component.
RECURSIVE InsertByScore(_, _)
InsertByScore(sorted, x) ==
    IF sorted = <<>> THEN <<x>>
    ELSE IF Head(sorted)[1] >= x[1]
         THEN <<Head(sorted)>> \o InsertByScore(Tail(sorted), x)
         ELSE <<x>> \o sorted

RECURSIVE SortByScore(_)
SortByScore(seq) ==
    IF seq = <<>> THEN <<>>
    ELSE InsertByScore(SortByScore(SubSeq(seq, 1, Len(seq) - 1)), seq[Len(seq)])

Seconds(pairs) == [i \in 1..Len(pairs) |-> pairs[i][2]]

search_patterns(store, query, limit) ==
    LET lim == Clamp(limit, SearchMaxLimit)
    IN  IF Terms(query) = <<>> THEN <<>>
        ELSE Seconds(Take(SortByScore(Scored(query, store)), lim))

\* [p for p in store if cat in p["categories"]]
RECURSIVE InCategory(_, _)
InCategory(store, cat) ==
    IF store = <<>> THEN <<>>
    ELSE (IF InList(cat, Head(store).categories) THEN <<Head(store)>> ELSE <<>>)
         \o InCategory(Tail(store), cat)

\* [p for p in store if p["type"] == type]
RECURSIVE OfType(_, _)
OfType(store, type) ==
    IF store = <<>> THEN <<>>
    ELSE (IF Head(store).type = type THEN <<Head(store)>> ELSE <<>>)
         \o OfType(Tail(store), type)

\* get_by_category without the lower-casing of its argument.
get_by_category_case_sensitive(store, category, limit) ==
    LET lim == Clamp(limit, CategoryMaxLimit)
        cat == Strip(category)
    IN  Take(InCategory(store, cat), lim)

get_by_category(store, category, limit) ==
    LET lim == Clamp(limit, CategoryMaxLimit)
        cat == Strip(Lower(category))
    IN  Take(InCategory(store, cat), lim)

\* The optional category of get_mistakes: None, or a string.
None == [none |-> TRUE, s |-> <<>>]
Some(s) == [none |-> FALSE, s |-> s]

\* get_mistakes without the restriction to records of type mistake.
get_mistakes_of_any_type(store, category, limit) ==
    LET lim == Clamp(limit, MistakesMaxLimit)
    IN  IF ~category.none /\ category.s # <<>>
        THEN Take(InCategory(store, Strip(Lower(category.s))), lim)
        ELSE Take(store, lim)

\* "if category:" is false for None and for the empty string.
get_mistakes(store, category, limit) ==
    LET lim == Clamp(limit, MistakesMaxLimit)
        mistakes == OfType(store, "mistake")
    IN  IF ~category.none /\ category.s # <<>>
        THEN Take(InCategory(mistakes, Strip(Lower(category.s))), lim)
        ELSE Take(mistakes, lim)

\* Every p["categories"] entry, records in store order, entries left to right.
RECURSIVE AllLabels(_)
AllLabels(store) ==
    IF store = <<>> THEN <<>> ELSE Head(store).categories \o AllLabels(Tail(store))

\* The keys of a dict filled by scanning seq: each value once, in the order of
\* its first occurrence.
RECURSIVE FirstSeen(_)
FirstSeen(seq) ==
    IF seq = <<>> THEN <<>>
    ELSE LET init == FirstSeen(SubSeq(seq, 1, Len(seq) - 1))
             x == seq[Len(seq)]
         IN  IF InList(x, init) THEN init ELSE Append(init, x)

\* counts[x] after "counts[x] = counts.get(x, 0) + 1" for every x of seq.
Occurrences(x, seq) == Cardinality({i \in 1..Len(seq) : seq[i] = x})

\* A count that gives every occurrence an entry of its own.
CountEveryOccurrence(seq) == [i \in 1..Len(seq) |-> <<1, seq[i]>>]

\* The dict built by the counting loop, as its items in insertion order.
CountDict(seq) ==
    LET keys == FirstSeen(seq)
    IN  [i \in 1..Len(keys) |-> <<Occurrences(keys[i], seq), keys[i]>>]

list_categories(store) ==
    LET sorted == SortByScore(CountDict(AllLabels(store)))
    IN  [i \in 1..Len(sorted) |-> [category |-> sorted[i][2], count |-> sorted[i][1]]]

Types(store) == [i \in 1..Len(store) |-> store[i].type]

\* stats with the number of category labels as its total.
stats_counting_labels(store) ==
    LET type_counts == CountDict(Types(store))
        cats == list_categories(store)
    IN  [total_patterns |-> Len(AllLabels(store)),
         by_type |-> [i \in 1..Len(type_counts) |->
                         [key |-> type_counts[i][2], value |-> type_counts[i][1]]],
         by_category |-> [i \in 1..Len(cats) |->
                         [key |-> cats[i].category, value |-> cats[i].count]]]

stats(store) ==
    LET type_counts == CountDict(Types(store))
        cats == list_categories(store)
    IN  [total_patterns |-> Len(store),
         by_type |-> [i \in 1..Len(type_counts) |->
                         [key |-> type_counts[i][2], value |-> type_counts[i][1]]],
         by_category |-> [i \in 1..Len(cats) |->
                         [key |-> cats[i].category, value |-> cats[i].count]]]

-----------------------------------------------------------------------------
(* Module-level data derived from the store.                               *)

\* ord(c), for the order sorted() puts strings in.
Ord(c) == CASE c = " " -> 32 [] c = "A" -> 65 [] c = "a" -> 97 [] OTHER -> 98

\* s < t for strings (lexicographic by code point).
RECURSIVE StrLess(_, _)
StrLess(s, t) ==
    IF t = <<>> THEN FALSE
    ELSE IF s = <<>> THEN TRUE
    ELSE IF Head(s) # Head(t) THEN Ord(Head(s)) < Ord(Head(t))
    ELSE StrLess(Tail(s), Tail(t))

\* sorted(S) for a set S of strings.
RECURSIVE SortedStrings(_)
SortedStrings(S) ==
    IF S = {} THEN <<>>
    ELSE LET m == CHOOSE x \in S : \A y \in S \ {x} : StrLess(x, y)
         IN  <<m>> \o SortedStrings(S \ {m})

\* CATEGORIES = sorted(set(c for p in PATTERNS for c in p["categories"]))
CATEGORIES(store) ==
    LET labels == AllLabels(store)
    IN  SortedStrings({labels[i] : i \in 1..Len(labels)})

\* A registry that does not advertise stats.
TOOLS_without_stats ==
    <<"search_patterns", "get_by_category", "get_mistakes", "list_categories">>

\* The names of the registry TOOLS, in its order.
TOOLS == <<"search_patterns", "get_by_category", "get_mistakes",
           "list_categories", "stats">>

-----------------------------------------------------------------------------
(* Decoded JSON values, as far as dispatch tells them apart.               *)

\* A key the object does not have.
Absent == "<absent>"
\* dict.get(key, default)
Get(v, default) == IF v = Absent THEN default ELSE v

\* JSON null / Python None as an id; req.get("id") gives it for a request
\* without an id and for a request whose id is null.
Null == "null"

\* A "query" or "category" argument: k is "absent", "str" (s is the string),
\* "falsy" (null, 0, false, [], {}) or "other" (any other non-string).
ArgAbsent == [k |-> "absent", s |-> <<>>]
ArgStr(s) == [k |-> "str", s |-> s]
ArgFalsy == [k |-> "falsy", s |-> <<>>]
ArgOther == [k |-> "other", s |-> <<>>]

\* "not v" for such an argument after args.get(key, "").
Falsy(v) == v.k \in {"absent", "falsy"} \/ (v.k = "str" /\ v.s = <<>>)

\* A "limit" argument: k is "absent", "int" (int() gives n) or "bad" (int() raises).
LimAbsent == [k |-> "absent", n |-> 0]
LimInt(n) == [k |-> "int", n |-> n]
LimBad == [k |-> "bad", n |-> 0]

\* "arguments" and "params": k is "absent", "object" or "other" (not an object).
NoArgs == [k |-> "absent", query |-> ArgAbsent, category |-> ArgAbsent,
           limit |-> LimAbsent]
OtherArgs == [k |-> "other", query |-> ArgAbsent, category |-> ArgAbsent,
              limit |-> LimAbsent]
ArgsObject(q, c, l) == [k |-> "object", query |-> q, category |-> c, limit |-> l]

NoParams == [k |-> "absent", name |-> Absent, arguments |-> NoArgs]
OtherParams == [k |-> "other", name |-> Absent, arguments |-> NoArgs]
ParamsObject(name, args) == [k |-> "object", name |-> name, arguments |-> args]

\* One line of stdin after strip() and json.loads: k is "blank", "malformed"
\* (JSONDecodeError), "other" (valid JSON that is not an object) or "object".
BlankLine == [k |-> "blank", method |-> Absent, id |-> Absent, params |-> NoParams]
MalformedLine ==
    [k |-> "malformed", method |-> Absent, id |-> Absent, params |-> NoParams]
NonObjectLine ==
    [k |-> "other", method |-> Absent, id |-> Absent, params |-> NoParams]
Request(method, id, params) ==
    [k |-> "object", method |-> method, id |-> id, params |-> params]

-----------------------------------------------------------------------------
(* Messages and their text.                                                *)

\* The text of a tools/call result: a heading, the count and the argument it
\* quotes, and the items rendered under it.
Text(head, n, arg, body) == [head |-> head, n |-> n, arg |-> arg, body |-> body]
NoText == Text("", 0, <<>>, <<>>)

\* _error: the message written for an error.
_error(id_, code, message) ==
    [id |-> id_, kind |-> "error", code |-> code, message |-> message,
     result |-> NoText]

\* _result with the id left out of the message.
_result_without_id(id_, res) ==
    [id |-> Null, kind |-> "result", code |-> 0, message |-> <<>>, result |-> res]

\* _result: the message written for a result.
_result(id_, res) ==
    [id |-> id_, kind |-> "result", code |-> 0, message |-> <<>>, result |-> res]

\* _format_patterns
_format_patterns(patterns) ==
    IF patterns = <<>> THEN Text("No patterns found.", 0, <<>>, <<>>)
    ELSE Text("", Len(patterns), <<>>, patterns)

\* The order sorted() puts the type names of the model in.
TypeRank(t) == CASE t = "insight" -> 1 [] t = "mistake" -> 2 [] OTHER -> 3

\* sorted(s["by_type"].items())
SortedByType(items) ==
    Seconds(SortByScore([i \in 1..Len(items) |-> <<0 - TypeRank(items[i].key), items[i]>>]))

\* sorted(s["by_category"].items(), key=lambda x: -x[1])
SortedByCount(items) ==
    Seconds(SortByScore([i \in 1..Len(items) |-> <<items[i].value, items[i]>>]))

\* What the body of the try block ends in.
Returned(text) == [status |-> "ok", text |-> text, exc |-> <<>>]
Raised(exc) == [status |-> "raise", text |-> NoText, exc |-> <<exc>>]
UnknownTool == [status |-> "unknown", text |-> NoText, exc |-> <<>>]

-----------------------------------------------------------------------------
(* dispatch: the branches of tools/call.                                   *)

\* str(e) of the exceptions the try block can raise.
QueryRequired == "query is required"
CategoryRequired == "category is required"
NoGetAttribute == "object has no attribute 'get'"
NoStripAttribute == "object has no attribute 'strip'"
NoLowerAttribute == "object has no attribute 'lower'"
BadInt == "int() cannot convert the limit"

\* int(args.get("limit", default)), given that int() does not raise.
IntLimit(args, default) == IF args.limit.k = "absent" THEN default ELSE args.limit.n

\* The search branch without the "query is required" check.
SearchBranchUnchecked(store, args) ==
    IF args.k = "other" THEN Raised(NoGetAttribute)
    ELSE IF args.limit.k = "bad" THEN Raised(BadInt)
    ELSE IF args.query.k \in {"other", "falsy"} THEN Raised(NoStripAttribute)
    ELSE LET query == args.query.s
             results == search_patterns(store, query, IntLimit(args, SearchDefaultLimit))
         IN  Returned(IF results # <<>>
                      THEN Text("Found", Len(results), query, results)
                      ELSE _format_patterns(results))

\* tool_name == "search_patterns"
SearchBranch(store, args) ==
    IF args.k = "other" THEN Raised(NoGetAttribute)
    ELSE IF Falsy(args.query) THEN Raised(QueryRequired)
    ELSE IF args.limit.k = "bad" THEN Raised(BadInt)
    ELSE IF args.query.k = "other" THEN Raised(NoStripAttribute)
    ELSE LET query == args.query.s
             results == search_patterns(store, query, IntLimit(args, SearchDefaultLimit))
         IN  Returned(IF results # <<>>
                      THEN Text("Found", Len(results), query, results)
                      ELSE _format_patterns(results))

\* tool_name == "get_by_category"
CategoryBranch(store, args) ==
    IF args.k = "other" THEN Raised(NoGetAttribute)
    ELSE IF Falsy(args.category) THEN Raised(CategoryRequired)
    ELSE IF args.limit.k = "bad" THEN Raised(BadInt)
    ELSE IF args.category.k = "other" THEN Raised(NoLowerAttribute)
    ELSE LET category == args.category.s
             results ==
                 get_by_category(store, category, IntLimit(args, CategoryDefaultLimit))
         IN  Returned(IF results # <<>>
                      THEN Text("category", Len(results), category, results)
                      ELSE Text("No patterns found for category", 0, category,
                                CATEGORIES(store)))

\* tool_name == "get_mistakes"
MistakesBranch(store, args) ==
    IF args.k = "other" THEN Raised(NoGetAttribute)
    ELSE IF args.limit.k = "bad" THEN Raised(BadInt)
    ELSE IF args.category.k = "other" THEN Raised(NoLowerAttribute)
    ELSE LET category == IF Falsy(args.category) THEN None ELSE Some(args.category.s)
             results ==
                 get_mistakes(store, category, IntLimit(args, MistakesDefaultLimit))
         IN  Returned(IF results # <<>>
                      THEN Text("Documented mistakes", Len(results), category.s, results)
                      ELSE _format_patterns(results))

\* tool_name == "list_categories"
ListBranch(store) ==
    LET cats == list_categories(store)
    IN  Returned(Text("Available categories", Len(cats), <<>>, cats))

\* tool_name == "stats"
StatsBranch(store) ==
    LET s == stats(store)
    IN  Returned(Text("Agent Field Guide", s.total_patterns, <<>>,
                      <<SortedByType(s.by_type), SortedByCount(s.by_category)>>))

\* The chain with an else branch that raises instead of writing its own error.
RunToolRaisingOnUnknown(store, tool_name, args) ==
    CASE tool_name = "search_patterns" -> SearchBranch(store, args)
      [] tool_name = "get_by_category" -> CategoryBranch(store, args)
      [] tool_name = "get_mistakes" -> MistakesBranch(store, args)
      [] tool_name = "list_categories" -> ListBranch(store)
      [] tool_name = "stats" -> StatsBranch(store)
      [] OTHER -> Raised("Unknown tool")

\* The if / elif chain of the try block.
RunTool(store, tool_name, args) ==
    CASE tool_name = "search_patterns" -> SearchBranch(store, args)
      [] tool_name = "get_by_category" -> CategoryBranch(store, args)
      [] tool_name = "get_mistakes" -> MistakesBranch(store, args)
      [] tool_name = "list_categories" -> ListBranch(store)
      [] tool_name = "stats" -> StatsBranch(store)
      [] OTHER -> UnknownTool

\* What dispatch leaves behind: the messages written, and whether an
\* exception escaped it.
Wrote(msgs) == [written |-> msgs, raised |-> FALSE]
Escaped == [written |-> <<>>, raised |-> TRUE]

\* The end of the tools/call branch with the else branch's return left out:
\* control falls through to the _result, whose text is unbound, and the
\* except clause writes a second error.
ReplyWithoutReturn(id_, tool_name, r) ==
    CASE r.status = "unknown" ->
             Wrote(<<_error(id_, -32601, <<"Unknown tool: ", tool_name>>),
                     _error(id_, -32603, <<"text is not associated with a value">>)>>)
      [] r.status = "ok" -> Wrote(<<_result(id_, r.text)>>)
      [] OTHER -> Wrote(<<_error(id_, -32603, r.exc)>>)

\* The end of the tools/call branch: the else branch's _error and return, the
\* _result after the chain, and the except clause.
Reply(id_, tool_name, r) ==
    CASE r.status = "unknown" ->
             Wrote(<<_error(id_, -32601, <<"Unknown tool: ", tool_name>>)>>)
      [] r.status = "ok" -> Wrote(<<_result(id_, r.text)>>)
      [] OTHER -> Wrote(<<_error(id_, -32603, r.exc)>>)

\* method == "tools/call".  params.get is outside the try block.
ToolsCall(store, id_, params) ==
    IF params.k = "other" THEN Escaped
    ELSE LET tool_name == Get(params.name, "")
             args == params.arguments
         IN  Reply(id_, tool_name, RunTool(store, tool_name, args))

\* The end of dispatch with the code of "invalid request".
OtherMethodInvalidRequest(id_, method) ==
    IF id_ = Null THEN Wrote(<<>>)
    ELSE Wrote(<<_error(id_, -32600, <<"Method not found: ", method>>)>>)

\* The end of dispatch without the notification check.
OtherMethodAlwaysAnswers(id_, method) ==
    Wrote(<<_error(id_, -32601, <<"Method not found: ", method>>)>>)

\* The end of dispatch, reached by every other method.
OtherMethod(id_, method) ==
    IF id_ = Null THEN Wrote(<<>>)
    ELSE Wrote(<<_error(id_, -32601, <<"Method not found: ", method>>)>>)

InitializeResult == Text("initialize", 0, <<>>, <<"2024-11-05", "agent-field-guide", "0.2.0">>)
ToolsListResult == Text("tools", Len(TOOLS), <<>>, TOOLS)

\* dispatch(req) for a decoded req; req.get raises when req is not an object.
dispatch(store, req) ==
    IF req.k # "object" THEN Escaped
    ELSE LET method == Get(req.method, "")
             id_ == Get(req.id, Null)
         IN  CASE method = "initialize" -> Wrote(<<_result(id_, InitializeResult)>>)
               [] method = "tools/list" -> Wrote(<<_result(id_, ToolsListResult)>>)
               [] method = "tools/call" -> ToolsCall(store, id_, req.params)
               [] OTHER -> OtherMethod(id_, method)

\* main without the except clause: the decode error leaves main.
DecodeFailureUncaught == Escaped

\* The except clause of main: the parse-error message is written and the
\* loop continues.
DecodeFailure == Wrote(<<_error(Null, -32700, <<"Parse error: ">>)>>)

\* One pass of the loop body of main over a stripped line.
Handle(store, line) ==
    CASE line.k = "blank" -> Wrote(<<>>)
      [] line.k = "malformed" -> DecodeFailure
      [] OTHER -> dispatch(store, line)

-----------------------------------------------------------------------------
(* Inputs.                                                                 *)

\* Records for the store.  The data module is not part of the program text;
\* stores are drawn from these.
P1 == [type |-> "mistake", categories |-> << <<"a">> >>, tags |-> << <<"b">> >>,
       content |-> <<"a", " ", "b">>]
P2 == [type |-> "practice", categories |-> << <<"a">>, <<"b">> >>, tags |-> <<>>,
       content |-> <<"b">>]
P3 == [type |-> "mistake", categories |-> << <<"b">> >>, tags |-> <<>>,
       content |-> <<"b">>]
P4 == [type |-> "insight", categories |-> << <<"a", "b">> >>, tags |-> << <<"a">> >>,
       content |-> <<"b", " ", "b">>]
P5 == [type |-> "practice", categories |-> << <<"a">> >>, tags |-> <<>>,
       content |-> <<"A">>]
Records == {P1, P2, P3, P4, P5}

\* All sequences over S of length at most n.
RECURSIVE SeqsUpTo(_, _)
SeqsUpTo(S, n) ==
    IF n = 0 THEN {<<>>}
    ELSE LET shorter == SeqsUpTo(S, n - 1)
         IN  shorter \cup {Append(q, x) : q \in shorter, x \in S}

\* The stores and the arguments the query functions are run on.
Stores == SeqsUpTo(Records, MaxStore)
Words == {<<"a">>, <<"b">>}
Phrases == {Join(ws) : ws \in SeqsUpTo(Words, MaxTerms)}
Queries == SeqsUpTo(Chars, MaxQueryLen) \cup Phrases
Limits == (0 - 1)..MaxLimit

\* The category arguments the query functions are run on.
CategoryStrings == SeqsUpTo(Chars, MaxCategoryLen)

\* n copies of record p.
Rep(p, n) == [i \in 1..n |-> p]

\* Stores longer than the limits and the defaults: a run of one record, with or
\* without a different record after it.
LargeSizes == {MistakesDefaultLimit, CategoryDefaultLimit, MistakesMaxLimit + 1,
               SearchMaxLimit + 1, CategoryMaxLimit + 1}
LargeStores ==
    {Rep(p, n) \o Rep(P1, m) : p \in {P2, P3}, n \in LargeSizes, m \in 0..1}
LargeQueries == {<<"a">>, <<"b">>}
LargeCategories == {<<"a">>, <<"B", " ">>, <<>>}
LargeLimits ==
    {0 - 1, 0, 1, 1000}
    \cup {SearchDefaultLimit, CategoryDefaultLimit, MistakesDefaultLimit}
    \cup {m + d : m \in {SearchMaxLimit, CategoryMaxLimit, MistakesMaxLimit},
                  d \in {0 - 1, 0, 1}}

\* The stores the loop is run on.
LoopStores == {<<P1, P2, P3>>, <<P4>>}

\* The names the if / elif chain of tools/call compares tool_name with.
BranchNames == {"search_patterns", "get_by_category", "get_mistakes",
                "list_categories", "stats"}
RequestIds == {"1", "2"}
ToolNames == {TOOLS[i] : i \in 1..Len(TOOLS)}
Methods == {"initialize", "tools/list", "tools/call", "notifications/initialized",
            Absent}

QueryArgs == {ArgAbsent, ArgFalsy, ArgOther}
             \cup {ArgStr(s) : s \in {<<>>, <<"a">>, <<"A", " ", "b">>}}
CategoryArgs == {ArgAbsent, ArgOther}
                \cup {ArgStr(s) : s \in {<<>>, <<" ", "A">>, <<"b">>}}
LimitArgs == {LimAbsent, LimBad} \cup {LimInt(n) : n \in Limits}
ArgumentValues ==
    {NoArgs, OtherArgs}
    \cup {ArgsObject(q, c, l) : q \in QueryArgs, c \in CategoryArgs, l \in LimitArgs}
ParamValues ==
    {NoParams, OtherParams}
    \cup {ParamsObject(n, a) :
            n \in ToolNames \cup BranchNames \cup {"no_such_tool", Absent},
            a \in ArgumentValues}

\* Every decoded request of the model.
Requests ==
    {Request(m, i, p) : m \in Methods, i \in RequestIds \cup {Absent, Null},
                        p \in ParamValues}

\* The lines the loop is run on: one or two of each class of line.
LoopLines ==
    {BlankLine, MalformedLine, NonObjectLine,
     Request("initialize", "1", NoParams),
     Request("initialize", Absent, OtherParams),
     Request("tools/list", "2", NoParams),
     Request("notifications/initialized", Absent, NoParams),
     Request("ping", "1", NoParams),
     Request(Absent, "2", NoParams),
     Request("tools/call", "1", OtherParams),
     Request("tools/call", "2",
             ParamsObject("search_patterns",
                          ArgsObject(ArgStr(<<"a">>), ArgAbsent, LimAbsent))),
     Request("tools/call", "1",
             ParamsObject("search_patterns",
                          ArgsObject(ArgStr(<<"b">>), ArgAbsent, LimBad))),
     Request("tools/call", "1", ParamsObject("get_by_category", NoArgs)),
     Request("tools/call", "2", ParamsObject("no_such_tool", NoArgs)),
     Request("tools/call", "1", ParamsObject("stats", OtherArgs)),
     Request("tools/call", Absent, ParamsObject("list_categories", NoArgs))}

-----------------------------------------------------------------------------
(* The state machine.                                                      *)
(*   PATTERNS  the record store                                            *)
(*   consumed  the lines read from stdin so far, the current one last      *)
(*   out       the messages written to stdout, each with the number of the *)
(*             line that was being processed when it was written           *)
(*   pc        "reading" (in the loop), "done" (end of stream), "crashed"  *)
(*             (an exception left main); "query" / "returned" around a     *)
(*             direct call of a query function                             *)
(*   call,ret  the arguments and the return value of such a call           *)

NoCall == [fn |-> "", query |-> <<>>, category |-> None, limit |-> 0]

Stamp(msgs) == [i \in 1..Len(msgs) |-> [src |-> Len(consumed) + 1, msg |-> msgs[i]]]

Init ==
    /\ PATTERNS \in LoopStores
    /\ consumed = <<>>
    /\ out = <<>>
    /\ pc = "reading"
    /\ call = NoCall
    /\ ret = <<>>

\* A blank line: "continue".
MainBlank(line) ==
    /\ pc = "reading"
    /\ line.k = "blank"
    /\ consumed' = Append(consumed, line)
    /\ out' = out \o Stamp(Handle(PATTERNS, line).written)
    /\ UNCHANGED <<PATTERNS, pc, call, ret>>

\* A line json.loads rejects.
MainDecodeError(line) ==
    /\ pc = "reading"
    /\ line.k = "malformed"
    /\ consumed' = Append(consumed, line)
    /\ out' = out \o Stamp(Handle(PATTERNS, line).written)
    /\ pc' = IF Handle(PATTERNS, line).raised THEN "crashed" ELSE pc
    /\ UNCHANGED <<PATTERNS, call, ret>>

\* A pass of the loop that reorders the store (a handler sorting PATTERNS in
\* place instead of a list of its own).
MainDispatchReorderingStore(line) ==
    /\ pc = "reading"
    /\ line.k \in {"other", "object"}
    /\ ~Handle(PATTERNS, line).raised
    /\ consumed' = Append(consumed, line)
    /\ out' = out \o Stamp(Handle(PATTERNS, line).written)
    /\ PATTERNS' = Tail(PATTERNS) \o <<Head(PATTERNS)>>
    /\ UNCHANGED <<pc, call, ret>>

\* A decoded line that dispatch returns from.
MainDispatch(line) ==
    /\ pc = "reading"
    /\ line.k \in {"other", "object"}
    /\ ~Handle(PATTERNS, line).raised
    /\ consumed' = Append(consumed, line)
    /\ out' = out \o Stamp(Handle(PATTERNS, line).written)
    /\ UNCHANGED <<PATTERNS, pc, call, ret>>

\* A decoded line on which an exception leaves dispatch, and so main.
MainUncaught(line) ==
    /\ pc = "reading"
    /\ line.k \in {"other", "object"}
    /\ Handle(PATTERNS, line).raised
    /\ consumed' = Append(consumed, line)
    /\ out' = out \o Stamp(Handle(PATTERNS, line).written)
    /\ pc' = "crashed"
    /\ UNCHANGED <<PATTERNS, call, ret>>

\* End of stream: the for loop ends and main returns.
MainEOF ==
    /\ pc = "reading"
    /\ pc' = "done"
    /\ UNCHANGED <<PATTERNS, consumed, out, call, ret>>

\* The transport loop on up to MaxLines lines.
MoreInput == Len(consumed) < MaxLines

Next ==
    \/ MoreInput /\ \E line \in LoopLines : MainBlank(line)
    \/ MoreInput /\ \E line \in LoopLines : MainDecodeError(line)
    \/ MoreInput /\ \E line \in LoopLines : MainDispatch(line)
    \/ MoreInput /\ \E line \in LoopLines : MainUncaught(line)
    \/ MainEOF

Spec == Init /\ [][Next]_vars

\* dispatch on one request, any request of the model.
NextDispatch ==
    \/ consumed = <<>> /\ \E req \in Requests : MainDispatch(req)
    \/ consumed = <<>> /\ \E req \in Requests : MainUncaught(req)

SpecDispatch == Init /\ [][NextDispatch]_vars

\* A query function called directly.
InitQuery ==
    /\ PATTERNS \in Stores
    /\ consumed = <<>>
    /\ out = <<>>
    /\ pc = "query"
    /\ call = NoCall
    /\ ret = <<>>

\* search_patterns(q, l) for some q of Qs and l of Ls.
CallSearchOn(Qs, Ls) ==
    /\ pc = "query"
    /\ \E q \in Qs, l \in Ls :
          /\ call' = [fn |-> "search_patterns", query |-> q, category |-> None,
                      limit |-> l]
          /\ ret' = search_patterns(PATTERNS, q, l)
    /\ pc' = "returned"
    /\ UNCHANGED <<PATTERNS, consumed, out>>

\* get_by_category(c, l) for some c of Cs and l of Ls.
CallCategoryOn(Cs, Ls) ==
    /\ pc = "query"
    /\ \E c \in Cs, l \in Ls :
          /\ call' = [fn |-> "get_by_category", query |-> <<>>, category |-> Some(c),
                      limit |-> l]
          /\ ret' = get_by_category(PATTERNS, c, l)
    /\ pc' = "returned"
    /\ UNCHANGED <<PATTERNS, consumed, out>>

\* get_mistakes(c, l) for c None or some string of Cs, and some l of Ls.
CallMistakesOn(Cs, Ls) ==
    /\ pc = "query"
    /\ \E c \in {None} \cup {Some(x) : x \in Cs}, l \in Ls :
          /\ call' = [fn |-> "get_mistakes", query |-> <<>>, category |-> c,
                      limit |-> l]
          /\ ret' = get_mistakes(PATTERNS, c, l)
    /\ pc' = "returned"
    /\ UNCHANGED <<PATTERNS, consumed, out>>

CallSearch == CallSearchOn(Queries, Limits)
CallCategory == CallCategoryOn(CategoryStrings, Limits)
CallMistakes == CallMistakesOn(CategoryStrings, Limits)

CallListCategories ==
    /\ pc = "query"
    /\ call' = [fn |-> "list_categories", query |-> <<>>, category |-> None,
                limit |-> 0]
    /\ ret' = list_categories(PATTERNS)
    /\ pc' = "returned"
    /\ UNCHANGED <<PATTERNS, consumed, out>>

CallStats ==
    /\ pc = "query"
    /\ call' = [fn |-> "stats", query |-> <<>>, category |-> None, limit |-> 0]
    /\ ret' = stats(PATTERNS)
    /\ pc' = "returned"
    /\ UNCHANGED <<PATTERNS, consumed, out>>

NextQuery ==
    \/ CallSearch
    \/ CallCategory
    \/ CallMistakes
    \/ CallListCategories
    \/ CallStats

SpecQuery == InitQuery /\ [][NextQuery]_vars

\* The limited query functions on stores longer than their limits.
InitLarge ==
    /\ PATTERNS \in LargeStores
    /\ consumed = <<>>
    /\ out = <<>>
    /\ pc = "query"
    /\ call = NoCall
    /\ ret = <<>>

NextLarge ==
    \/ CallSearchOn(LargeQueries, LargeLimits)
    \/ CallCategoryOn(LargeCategories, LargeLimits)
    \/ CallMistakesOn(LargeCategories, LargeLimits)

SpecLarge == InitLarge /\ [][NextLarge]_vars

-----------------------------------------------------------------------------
(* Properties.                                                             *)

\* The messages written while line number i was being processed.
RepliesTo(i) ==
    LET at == {k \in 1..Len(out) : out[k].src = i}
    IN  {out[k].msg : k \in at}
NumRepliesTo(i) == Cardinality({k \in 1..Len(out) : out[k].src = i})

\* The line an entry of out was written for.
LineOf(e) == consumed[e.src]

IsRequest(line) == line.k = "object"
\* The request has an id: the key is there and its value is not null.
HasId(req) == Get(req.id, Null) # Null
MethodOf(req) == Get(req.method, "")
KnownMethods == {"initialize", "tools/list", "tools/call"}

\* C1: the transport loop never ends through an uncaught exception, whatever
\* the lines decode to.
C1_LoopNeverCrashes == pc # "crashed"

\* C2: a decoded request without an id never causes an output line, and the
\* only output with a null id is the parse-error response.
C2_NoReplyWithoutId ==
    \A k \in 1..Len(out) :
        /\ IsRequest(LineOf(out[k])) => HasId(LineOf(out[k]))
        /\ out[k].msg.id = Null => LineOf(out[k]).k = "malformed"

\* C3: every message dispatch writes for a decoded request carries the id of
\* that request (null when the request has none).
C3_ReplyCarriesRequestId ==
    \A k \in 1..Len(out) :
        IsRequest(LineOf(out[k])) => out[k].msg.id = Get(LineOf(out[k]).id, Null)

C3_Witness ==
    \E k \in 1..Len(out) :
        /\ IsRequest(LineOf(out[k]))
        /\ LineOf(out[k]).id = "2"
        /\ out[k].msg.id = "2"
        /\ out[k].msg.kind = "result"
        /\ MethodOf(LineOf(out[k])) = "tools/call"

\* The lines of a sequence that are not of kind k, in order.
RECURSIVE Without(_, _)
Without(lines, k) ==
    IF lines = <<>> THEN <<>>
    ELSE (IF Head(lines).k = k THEN <<>> ELSE <<Head(lines)>>)
         \o Without(Tail(lines), k)

\* The messages of out that were not written for a line of kind k, in order.
RECURSIVE MessagesWithout(_, _)
MessagesWithout(entries, k) ==
    IF entries = <<>> THEN <<>>
    ELSE (IF LineOf(Head(entries)).k = k THEN <<>> ELSE <<Head(entries).msg>>)
         \o MessagesWithout(Tail(entries), k)

\* What the loop body writes for each line of a sequence, in order.
RECURSIVE Answers(_, _)
Answers(store, lines) ==
    IF lines = <<>> THEN <<>>
    ELSE Handle(store, Head(lines)).written \o Answers(store, Tail(lines))

C5_OneReplyPerLineInOrder ==
    /\ \A k \in 1..Len(out) :
          /\ out[k].src \in 1..Len(consumed)
          /\ LineOf(out[k]).k # "blank"
    /\ \A k, l \in 1..Len(out) : k < l => out[k].src < out[l].src
    /\ \A i \in 1..Len(consumed) :
          /\ NumRepliesTo(i) <= 1
          /\ NumRepliesTo(i) = Len(Handle(PATTERNS, consumed[i]).written)

C5_Witness ==
    /\ Len(out) = 2
    /\ Len(consumed) = 3
    /\ consumed[2].k = "blank"
    /\ out[1].src = 1
    /\ out[2].src = 3
    /\ out[1].msg # out[2].msg

\* The request that SpecDispatch hands to dispatch, once it has.
Dispatched == Len(consumed) = 1 /\ IsRequest(consumed[1])
TheRequest == consumed[1]
Messages == [k \in 1..Len(out) |-> out[k].msg]

\* A tools/call request that names the tool.
Names(req, tool) ==
    /\ MethodOf(req) = "tools/call"
    /\ req.params.k = "object"
    /\ req.params.name = tool

\* The request carries no non-empty value under key (no arguments at all,
\* arguments that are no object, no such key, or an empty or null value).
Lacks(req, key) ==
    \/ req.params.arguments.k # "object"
    \/ (key = "query" /\ Falsy(req.params.arguments.query))
    \/ (key = "category" /\ Falsy(req.params.arguments.category))

\* C6 as stated: a tools/call with an id that names search_patterns without a
\* non-empty query, or get_by_category without a non-empty category, yields
\* exactly one response, the error -32603 "query is required" respectively
\* "category is required" with the request's id.
C6_Original ==
    \A t \in {<<"search_patterns", "query", QueryRequired>>,
              <<"get_by_category", "category", CategoryRequired>>} :
        (Dispatched /\ HasId(TheRequest)
           /\ Names(TheRequest, t[1]) /\ Lacks(TheRequest, t[2]))
        => Messages = <<_error(TheRequest.id, -32603, <<t[3]>>)>>

\* C6 as amended: such a request yields exactly one response, an error with
\* code -32603 and the request's id; its message is "query is required"
\* respectively "category is required" unless arguments is not an object, and
\* then it is the text of the attribute error.
C6_MissingArgumentIsInternalError ==
    \A t \in {<<"search_patterns", "query", QueryRequired>>,
              <<"get_by_category", "category", CategoryRequired>>} :
        (Dispatched /\ HasId(TheRequest)
           /\ Names(TheRequest, t[1]) /\ Lacks(TheRequest, t[2]))
        => Messages = <<_error(TheRequest.id, -32603,
                               IF TheRequest.params.arguments.k = "other"
                               THEN <<NoGetAttribute>> ELSE <<t[3]>>)>>

C6_Witness ==
    /\ Dispatched
    /\ TheRequest.id = "2"
    /\ Names(TheRequest, "get_by_category")
    /\ TheRequest.params.arguments.k = "object"
    /\ TheRequest.params.arguments.category = ArgAbsent
    /\ Messages = <<_error("2", -32603, <<CategoryRequired>>)>>

\* C7: a request with an id whose method is none of initialize, tools/list,
\* tools/call yields exactly one response, the error -32601 with its id.
C7_UnknownMethodNotFound ==
    (Dispatched /\ HasId(TheRequest) /\ MethodOf(TheRequest) \notin KnownMethods)
    => /\ Len(out) = 1
       /\ out[1].msg.kind = "error"
       /\ out[1].msg.code = -32601
       /\ out[1].msg.id = TheRequest.id

C7_Witness ==
    /\ Dispatched
    /\ TheRequest.id = "1"
    /\ TheRequest.method = "notifications/initialized"
    /\ Len(out) = 1
    /\ out[1].msg.code = -32601
    /\ out[1].msg.message = <<"Method not found: ", "notifications/initialized">>

\* C8: a decoded request with a method other than initialize, tools/list,
\* tools/call and without an id produces no output line.
C8_UnknownNotificationDropped ==
    (Dispatched /\ ~HasId(TheRequest) /\ MethodOf(TheRequest) \notin KnownMethods)
    => out = <<>>

C8_Witness ==
    /\ Dispatched
    /\ TheRequest.id = Absent
    /\ TheRequest.method = "notifications/initialized"
    /\ pc = "reading"
    /\ out = <<>>

\* The tool name a tools/call request resolves, when params has one to give.
HasToolName(req) == MethodOf(req) = "tools/call" /\ req.params.k # "other"
ToolNameOf(req) == Get(req.params.name, "")

\* C9: a tools/call whose tool name is not one of the five registered yields an
\* error with the code of an unknown top-level method (-32601) and a message
\* naming the tool; never a result, never -32603.
C9_UnknownToolNotFound ==
    (Dispatched /\ HasToolName(TheRequest) /\ ToolNameOf(TheRequest) \notin ToolNames)
    => /\ Len(out) = 1
       /\ out[1].msg.kind = "error"
       /\ out[1].msg.code = -32601
       /\ out[1].msg.code = OtherMethod("1", "ping").written[1].code
       /\ out[1].msg.message = <<"Unknown tool: ", ToolNameOf(TheRequest)>>
       /\ out[1].msg.message # OtherMethod("1", "ping").written[1].message

C9_Witness ==
    /\ Dispatched
    /\ Names(TheRequest, "no_such_tool")
    /\ TheRequest.params.arguments.k = "other"
    /\ Len(out) = 1
    /\ out[1].msg.code = -32601
    /\ out[1].msg.message = <<"Unknown tool: ", "no_such_tool">>

\* The score of the claim: the number of distinct terms of the query that occur
\* in the haystack, plus 3 when the whole lower-cased query occurs in it.
DistinctTermScore(query, p) ==
    LET text == Haystack(p)
        terms == Terms(query)
        found == {terms[i] : i \in {k \in 1..Len(terms) : Contains(text, terms[k])}}
    IN  Cardinality(found) + (IF Contains(text, Lower(query)) THEN 3 ELSE 0)

\* C10: for every query with a term and every record, the score search_patterns
\* ranks the record by is the number of distinct query terms found in the
\* haystack, plus 3 when the whole lower-cased query is found in it.
C10_ScoreCountsDistinctTerms ==
    (pc = "returned" /\ call.fn = "search_patterns" /\ Terms(call.query) # <<>>)
    => \A i \in 1..Len(PATTERNS) :
          Score(call.query, PATTERNS[i]) = DistinctTermScore(call.query, PATTERNS[i])

-----------------------------------------------------------------------------
(* Properties of the query functions.                                      *)

Returned_(fn) == pc = "returned" /\ call.fn = fn

\* clamp(L, 1, M) as the claims state it.
Clamped(L, M) == IF L < 1 THEN 1 ELSE IF L > M THEN M ELSE L

\* The records of the store that score at least 1 under score function S(_, _),
\* by position, and the place of each in the order "higher score first, equal
\* scores in store order".
Matching(S(_, _)) == {i \in 1..Len(PATTERNS) : S(call.query, PATTERNS[i]) >= 1}
Place(S(_, _), i) ==
    1 + Cardinality({j \in Matching(S) :
            \/ S(call.query, PATTERNS[j]) > S(call.query, PATTERNS[i])
            \/ (S(call.query, PATTERNS[j]) = S(call.query, PATTERNS[i]) /\ j < i)})

\* ret is the first Clamped(limit) records of that order; a query without terms
\* (empty, or whitespace only) gives the empty sequence.
RankedBy(S(_, _)) ==
    IF Strip(call.query) = <<>> THEN ret = <<>>
    ELSE /\ Len(ret) = Min(Clamped(call.limit, 30), Cardinality(Matching(S)))
         /\ \A k \in 1..Len(ret) :
               \E i \in Matching(S) : Place(S, i) = k /\ ret[k] = PATTERNS[i]
         /\ \A k \in 1..Len(ret) : S(call.query, ret[k]) >= 1
         /\ \A k \in 1..(Len(ret) - 1) :
               S(call.query, ret[k]) >= S(call.query, ret[k + 1])

\* C11: search_patterns returns the first limit (clamped) records of the list
\* of all records with score >= 1 (the number of distinct query terms found,
\* plus the phrase bonus), by non-increasing score, equal scores in store
\* order; a query without terms returns the empty sequence.
C11_RankedByDistinctTermScore ==
    Returned_("search_patterns") => RankedBy(DistinctTermScore)

\* The same with the score the code computes (terms counted as often as the
\* query repeats them).
RankedByComputedScore ==
    Returned_("search_patterns") => RankedBy(Score)

\* ret is what `clamped` is (the result for the clamped limit), has at most M
\* records, and for a limit below 1 is what `one` is (the result for limit 1).
LimitedAs(clamped, one, M) ==
    /\ ret = clamped
    /\ Len(ret) <= M
    /\ (call.limit < 1 => ret = one)

\* C12: for every integer limit L, search_patterns, get_by_category and
\* get_mistakes return what they return for limit clamp(L, 1, M), M being 30,
\* 40 and 25: never more than M records, and a limit below 1 acts as limit 1.
C12_LimitIsClamped ==
    /\ Returned_("search_patterns") =>
          LimitedAs(search_patterns(PATTERNS, call.query, Clamped(call.limit, 30)),
                    search_patterns(PATTERNS, call.query, 1), 30)
    /\ Returned_("get_by_category") =>
          LimitedAs(get_by_category(PATTERNS, call.category.s, Clamped(call.limit, 40)),
                    get_by_category(PATTERNS, call.category.s, 1), 40)
    /\ Returned_("get_mistakes") =>
          LimitedAs(get_mistakes(PATTERNS, call.category, Clamped(call.limit, 25)),
                    get_mistakes(PATTERNS, call.category, 1), 25)

\* A search with a limit above 30 on a store with more than 30 matching
\* records has returned exactly 30 of them.
C12_Witness ==
    /\ Returned_("search_patterns")
    /\ call.limit > 30
    /\ Len(PATTERNS) > 30
    /\ Len(ret) = 30

\* The number of records of type mistake, and of records carrying label c.
NumMistakes == Cardinality({i \in 1..Len(PATTERNS) : PATTERNS[i].type = "mistake"})
NumCarrying(c) ==
    Cardinality({i \in 1..Len(PATTERNS) :
        \E j \in 1..Len(PATTERNS[i].categories) : PATTERNS[i].categories[j] = c})

\* get_mistakes was called with a category argument that is a non-empty string.
MistakesOfCategory ==
    Returned_("get_mistakes") /\ ~call.category.none /\ call.category.s # <<>>

\* C13 as stated: each record get_mistakes(X) returns is also returned by
\* get_mistakes() and by get_by_category(X), called with their default limits
\* (10 and 15).
C13_Original ==
    (MistakesOfCategory /\ call.limit = 10) =>
        \A k \in 1..Len(ret) :
            /\ InList(ret[k], get_mistakes(PATTERNS, None, 10))
            /\ InList(ret[k], get_by_category(PATTERNS, call.category.s, 15))

\* C13: each record get_mistakes(X) returns, X a non-empty string, has type
\* mistake and carries the label lower(trim(X)); it is also returned by
\* get_mistakes() when the store has at most 10 mistakes, and by
\* get_by_category(X) when at most 15 records carry the label.
C13_MistakesOfCategoryAreFiltered ==
    MistakesOfCategory =>
        \A k \in 1..Len(ret) :
            /\ ret[k].type = "mistake"
            /\ \E j \in 1..Len(ret[k].categories) :
                  ret[k].categories[j] = Lower(Strip(call.category.s))
            /\ (NumMistakes <= 10 =>
                  InList(ret[k], get_mistakes(PATTERNS, None, 10)))
            /\ (NumCarrying(Lower(Strip(call.category.s))) <= 15 =>
                  InList(ret[k], get_by_category(PATTERNS, call.category.s, 15)))

\* get_mistakes(X) has returned records of a store in which neither default
\* limit cuts anything off.
C13_Witness ==
    /\ MistakesOfCategory
    /\ Len(ret) > 0
    /\ NumMistakes <= 10
    /\ NumCarrying(Lower(Strip(call.category.s))) <= 15

\* get_mistakes was called with no category, or with one that is empty after
\* trimming.
NoCategoryAfterTrim ==
    Returned_("get_mistakes") /\ (call.category.none \/ Strip(call.category.s) = <<>>)

\* C14: get_mistakes with a category that is absent, empty or only whitespace
\* returns what get_mistakes without a category returns.
C14_BlankCategoryIsNoCategory ==
    NoCategoryAfterTrim => ret = get_mistakes(PATTERNS, None, call.limit)

\* The positions of the records carrying label c, and the k-th of them.
Carrying(c) ==
    {i \in 1..Len(PATTERNS) :
        \E j \in 1..Len(PATTERNS[i].categories) : PATTERNS[i].categories[j] = c}
Kth(I, k) == CHOOSE i \in I : Cardinality({j \in I : j < i}) = k - 1

\* C15: get_by_category(c) equals get_by_category(lower(trim(c))), and returns
\* exactly the records that have a label equal to lower(trim(c)), in store
\* order, up to the clamped limit.
C15_CategoryIsNormalizedAndExact ==
    Returned_("get_by_category") =>
        LET c == Lower(Strip(call.category.s))
        IN  /\ ret = get_by_category(PATTERNS, c, call.limit)
            /\ Len(ret) = Min(Clamped(call.limit, 40), Cardinality(Carrying(c)))
            /\ \A k \in 1..Len(ret) : ret[k] = PATTERNS[Kth(Carrying(c), k)]

\* get_by_category was called with an argument that differs from its normal
\* form, and returned a record while leaving out one that has the normal form
\* as a proper substring of a label.
C15_Witness ==
    /\ Returned_("get_by_category")
    /\ call.category.s # Lower(Strip(call.category.s))
    /\ Len(ret) > 0
    /\ \E i \in 1..Len(PATTERNS) :
          /\ i \notin Carrying(Lower(Strip(call.category.s)))
          /\ \E j \in 1..Len(PATTERNS[i].categories) :
                Contains(PATTERNS[i].categories[j], Lower(Strip(call.category.s)))

\* The labels of the store, and the sum of a sequence of numbers.
Labels ==
    UNION {{PATTERNS[i].categories[j] : j \in 1..Len(PATTERNS[i].categories)} :
              i \in 1..Len(PATTERNS)}
RECURSIVE SumOf(_)
SumOf(seq) == IF seq = <<>> THEN 0 ELSE Head(seq) + SumOf(Tail(seq))
MembershipPairs ==
    Cardinality({<<i, c>> \in (1..Len(PATTERNS)) \X Labels : i \in Carrying(c)})

C17_StatsAgreeWithStore ==
    Returned_("stats") =>
        /\ ret.total_patterns = Len(PATTERNS)
        /\ SumOf([k \in 1..Len(ret.by_type) |-> ret.by_type[k].value])
              = ret.total_patterns
        /\ {<<ret.by_category[k].key, ret.by_category[k].value>> :
                k \in 1..Len(ret.by_category)}
              = {<<list_categories(PATTERNS)[k].category,
                   list_categories(PATTERNS)[k].count>> :
                    k \in 1..Len(list_categories(PATTERNS))}
        /\ \A k, l \in 1..Len(ret.by_category) :
              ret.by_category[k].key = ret.by_category[l].key => k = l

\* stats has returned for a store of records of two types, one of them with
\* two labels.
C17_Witness ==
    /\ Returned_("stats")
    /\ Len(ret.by_type) > 1
    /\ Len(ret.by_category) > 1
    /\ \E i \in 1..Len(PATTERNS) : Len(PATTERNS[i].categories) > 1

\* Where label c is first met when the records are scanned in store order,
\* each record's categories left to right: the record, then the position.
FirstRecord(c) == CHOOSE i \in Carrying(c) : \A j \in Carrying(c) : i <= j
FirstPosition(c) ==
    CHOOSE j \in 1..Len(PATTERNS[FirstRecord(c)].categories) :
        /\ PATTERNS[FirstRecord(c)].categories[j] = c
        /\ \A h \in 1..(j - 1) : PATTERNS[FirstRecord(c)].categories[h] # c
MetBefore(c, d) ==
    \/ FirstRecord(c) < FirstRecord(d)
    \/ (FirstRecord(c) = FirstRecord(d) /\ FirstPosition(c) < FirstPosition(d))

\* C18: list_categories is ordered by non-increasing count, and categories of
\* equal count are in the order in which the scan of the store first met them.
C18_CountsDescendTiesInScanOrder ==
    Returned_("list_categories") =>
        \A k, l \in 1..Len(ret) :
            k < l =>
                /\ ret[k].count >= ret[l].count
                /\ (ret[k].count = ret[l].count =>
                      MetBefore(ret[k].category, ret[l].category))

\* list_categories has returned two categories of equal count that the scan
\* met in different records.
C18_Witness ==
    /\ Returned_("list_categories")
    /\ \E k, l \in 1..Len(ret) :
          /\ k < l
          /\ ret[k].count = ret[l].count
          /\ FirstRecord(ret[k].category) < FirstRecord(ret[l].category)

-----------------------------------------------------------------------------
(* Properties of the session as a whole.                                   *)

\* The messages written for line i, in the order written.
RepliesInOrder(i) ==
    LET at == {k \in 1..Len(out) : out[k].src = i}
    IN  [n \in 1..Cardinality(at) |-> out[Kth(at, n)].msg]

\* Equal lines of the session were answered alike.
SameLineSameReplies ==
    \A i, j \in 1..Len(consumed) :
        consumed[i] = consumed[j] => RepliesInOrder(i) = RepliesInOrder(j)

\* C19: no pass of the loop changes the store, and a line is answered the same
\* wherever it occurs in the session.
C19_StoreNeverChanges ==
    [][PATTERNS' = PATTERNS /\ SameLineSameReplies']_vars

\* A tools/call was answered, then another request, then the first again.
C19_Witness ==
    /\ Len(consumed) = 3
    /\ consumed[1] = consumed[3]
    /\ consumed[2] # consumed[1]
    /\ IsRequest(consumed[1]) /\ MethodOf(consumed[1]) = "tools/call"
    /\ IsRequest(consumed[2])
    /\ NumRepliesTo(2) > 0
    /\ NumRepliesTo(3) > 0
    /\ Len(PATTERNS) > 1

\* The five operations of the registry.
FiveNames == {"search_patterns", "get_by_category", "get_mistakes",
              "list_categories", "stats"}

\* The request was answered with the error "Unknown tool".
AnsweredUnknownTool ==
    \E k \in 1..Len(out) :
        /\ out[k].msg.kind = "error"
        /\ out[k].msg.message = <<"Unknown tool: ", ToolNameOf(TheRequest)>>

\* C20: tools/list returns five names, and tools/call resolves exactly those:
\* a call naming an advertised tool is never answered "Unknown tool", and a
\* call that is not answered "Unknown tool" names an advertised tool.
C20_RegistryIsWhatDispatchHandles ==
    /\ Len(TOOLS) = 5
    /\ ToolNames = FiveNames
    /\ (Dispatched /\ MethodOf(TheRequest) = "tools/list") =>
          /\ Len(out) = 1
          /\ out[1].msg.kind = "result"
          /\ {out[1].msg.result.body[k] : k \in 1..Len(out[1].msg.result.body)}
                = FiveNames
    /\ (Dispatched /\ HasToolName(TheRequest)) =>
          (AnsweredUnknownTool <=> ToolNameOf(TheRequest) \notin ToolNames)

\* A call of the last tool of the registry was answered with a result.
C20_Witness ==
    /\ Dispatched
    /\ Names(TheRequest, "stats")
    /\ Len(out) = 1
    /\ out[1].msg.kind = "result"

=============================================================================
